---- MODULE Spec2Model ----
(***************************************************************************)
(* Reflex Master PRO v2.0 (ReflexMasterPro.ino): the game state machine    *)
(* of setup() and loop(), its menu, the "en garde" wait with false-start   *)
(* detection, the reflex capture and scoring, and the high score.          *)
(*                                                                         *)
(* One action is one run of a handler of loop(), except where a handler    *)
(* blocks: runEnGarde() is split at its two polling loops (pc = "gate",    *)
(* pc = "delay") and introAnimation() at its delay(100) calls, because     *)
(* the inputs and the clock change between two polls.                      *)
(* Inputs (pin levels, analog readings, millis() readings, random()        *)
(* draws) are drawn with \E from small sets at the step that reads them.   *)
(*                                                                         *)
(* Spec is the whole program, MenuSpec the menu over its whole range,      *)
(* ScoreSpec one run of checkReflexes() over every reaction time,          *)
(* StmtSpec the program with its handlers cut after the assignment to      *)
(* gameState, QuietSpec the program with the buttons released while a      *)
(* round is prepared, under fairness.                                      *)
(***************************************************************************)
EXTENDS Integers, Sequences, FiniteSets

VARIABLES
  pc,              \* position: "introOn", "introOff", "loop", "gate", "delay"
                   \* (and, under StmtSpec, the statement reached in a handler)
  introK,          \* loop counter k of introAnimation
  gameState,       \* 0 Menu, 1 Prepare, 2 Await, 3 Result, 4 GameOver, 5 HighScore
  menuOption,
  totalRounds,
  currentRound,
  currentTarget,
  reactionTime,
  roundScore,
  totalGameScore,
  highScore,
  led,             \* led[i]: level written to ledPins[i]
  sinceNav,        \* millis() - lastNavTime at the last reading, capped at NavCap
  randomDelay,     \* local of runEnGarde, 0 outside its delay loop
  waited,          \* millis() - delayStart at the last reading of the delay loop
  calls,           \* the processRoundResult calls of the last checkReflexes run
  resultsSeen,     \* currentRound at each entry to Result since startNewGame
  gameOvers,       \* number of gameOver() calls since startNewGame
  lcd,             \* the screen last written to the LCD
  lastSel          \* joySwitch read LOW at the last digitalRead(joySwitch)

vars == <<pc, introK, gameState, menuOption, totalRounds, currentRound,
          currentTarget, reactionTime, roundScore, totalGameScore, highScore,
          led, sinceNav, randomDelay, waited, calls, resultsSeen, gameOvers,
          lcd, lastSel>>

---------------------------------------------------------------------------
(* Program constants *)

numTargets == 3
Targets == 0 .. (numTargets - 1)

MenuState == 0
PrepareState == 1
AwaitState == 2
ResultState == 3
GameOverState == 4
HighScoreState == 5

DefaultRounds == 10
MinRounds == 1
MaxRounds == 99
JoyLow == 100
JoyHigh == 900
NavDebounce == 200
RandomDelayMin == 800
RandomDelayMax == 3000
ScoreCutoff == 1000
ScoreBase == 1000
FastScore == 800
FastToneDelay == 80
WrongPenalty == 200
FalseStartPenalty == 500
IntroBlinks == 2
IntroDelay == 100

---------------------------------------------------------------------------
(* Bounds of the exploration *)

\* Games are explored for totalRounds up to MaxGameRounds.
MaxGameRounds == 2
\* and under Spec totalRounds is raised only up to MaxGameRounds + 1
\* (MenuSpec explores the whole range 1 .. 99).
\* totalGameScore is explored within -MaxDebt .. MaxCredit.
MaxDebt == 500
MaxCredit == 900
\* Reaction times drawn under ScoreSpec: 0 .. MaxRT.
MaxRT == 1100
\* Extra milliseconds between two readings of millis() in one checkReflexes.
MaxLag == 1

NavCap == NavDebounce + 1
AllOff == [i \in Targets |-> FALSE]
AllOn == [i \in Targets |-> TRUE]
Min(a, b) == IF a < b THEN a ELSE b

JoyValues == {JoyLow - 1, JoyLow, JoyHigh, JoyHigh + 1}
JoyCoarse == {JoyLow - 1, JoyLow, JoyHigh + 1}
MenuTicks == {NavDebounce, NavDebounce + 1}
\* Under Spec every menu tick comes more than the debounce after the last.
SpecTicks == {NavDebounce + 1}
\* Reaction times drawn under Spec: one fast (in the middle of the window
\* that scores above FastScore), one beyond the cutoff.
ReactionTimes == {(ScoreBase - FastScore) \div 2, ScoreCutoff + 1}
RandomDelays == {RandomDelayMin, RandomDelayMax - 1}
WaitPoints == {RandomDelayMin - 1, RandomDelayMin, RandomDelayMax - 1}
ButtonSets == SUBSET Targets
\* no button or one button pressed
SingleButtons == {{}} \cup {{i} : i \in Targets}

---------------------------------------------------------------------------
(* Power-on: the globals' initialisers, all pins low *)

Init ==
  /\ pc = "introOn"
  /\ introK = 0
  /\ gameState = MenuState
  /\ menuOption = 0
  /\ totalRounds = DefaultRounds
  /\ currentRound = 1
  /\ currentTarget = 0
  /\ reactionTime = 0
  /\ roundScore = 0
  /\ totalGameScore = 0
  /\ highScore = 0
  /\ led = AllOff
  /\ sinceNav = 0
  /\ randomDelay = 0
  /\ waited = 0
  /\ calls = <<>>
  /\ resultsSeen = <<>>
  /\ gameOvers = 0
  /\ lcd = "blank"
  /\ lastSel = FALSE

---------------------------------------------------------------------------
(* setup(): introAnimation() blinks the three LEDs twice, then drawMenu() *)

IntroOn ==
  /\ pc = "introOn"
  /\ led' = AllOn
  /\ sinceNav' = Min(sinceNav + IntroDelay, NavCap)
  /\ pc' = "introOff"
  /\ lcd' = "intro"
  /\ UNCHANGED <<introK, gameState, menuOption, totalRounds, currentRound,
                 currentTarget, reactionTime, roundScore, totalGameScore,
                 highScore, randomDelay, waited, calls, resultsSeen, gameOvers,
                 lastSel>>

IntroOff ==
  /\ pc = "introOff"
  /\ led' = AllOff
  /\ sinceNav' = Min(sinceNav + IntroDelay, NavCap)
  /\ introK' = introK + 1
  /\ pc' = IF introK + 1 < IntroBlinks THEN "introOn" ELSE "loop"
  /\ lcd' = IF introK + 1 < IntroBlinks THEN lcd ELSE "menu"
  /\ UNCHANGED <<gameState, menuOption, totalRounds, currentRound,
                 currentTarget, reactionTime, roundScore, totalGameScore,
                 highScore, randomDelay, waited, calls, resultsSeen, gameOvers,
                 lastSel>>

---------------------------------------------------------------------------
(* handleMenu() with what it calls: startNewGame(), showHighScore() *)

\* IncRounds without the upper limit
IncRoundsNoClamp(r) == r + 1

IncRounds(r) == IF r + 1 > MaxRounds THEN MaxRounds ELSE r + 1

DecRounds(r) == IF r - 1 < MinRounds THEN MinRounds ELSE r - 1

\* millis() - lastNavTime > 200
NavAllowed(t) == t > NavDebounce

MoveUp(m, joyY) == IF joyY < JoyLow /\ m > 0 THEN m - 1 ELSE m

\* MoveDown without the test of the last row
MoveDownNoLimit(m, joyY) == IF joyY > JoyHigh THEN m + 1 ELSE m

MoveDown(m, joyY) == IF joyY > JoyHigh /\ m < 2 THEN m + 1 ELSE m

\* StartNewGame without the reset of currentRound
StartNewGameKeepRound ==
  /\ totalGameScore' = 0
  /\ gameState' = PrepareState
  /\ lcd' = "prepare"
  /\ resultsSeen' = <<>>
  /\ gameOvers' = 0
  /\ UNCHANGED <<highScore, currentRound>>

\* startNewGame(): the counters restart, the configuration stays
StartNewGame ==
  /\ currentRound' = 1
  /\ totalGameScore' = 0
  /\ gameState' = PrepareState
  /\ lcd' = "prepare"
  /\ resultsSeen' = <<>>
  /\ gameOvers' = 0
  /\ UNCHANGED highScore

\* showHighScore()
ShowHighScore ==
  /\ gameState' = HighScoreState
  /\ lcd' = "highscore"
  /\ UNCHANGED <<currentRound, totalGameScore, highScore, resultsSeen, gameOvers>>

\* OnRoundsRow that also takes the row below
OnRoundsRowOrBelow(m) == m >= 1

\* menuOption == 1, evaluated after the vertical move
OnRoundsRow(m) == m = 1

\* menuOption after the vertical block; nav: the debounce condition
MenuAfterNav(m, joyY, nav) ==
  IF nav THEN MoveDown(MoveUp(m, joyY), joyY) ELSE m

\* totalRounds after the horizontal block; m: menuOption after the vertical one
RoundsAfterNav(r, m, joyX, nav) ==
  LET inc == nav /\ OnRoundsRow(m) /\ joyX > JoyHigh
      r1 == IF inc THEN IncRounds(r) ELSE r
      dec == nav /\ OnRoundsRow(m) /\ joyX < JoyLow
  IN IF dec THEN DecRounds(r1) ELSE r1

\* the vertical block moved the selection (lastNavTime = millis(), drawMenu())
VerticalAccepted(m, joyY, nav) == MenuAfterNav(m, joyY, nav) # m

\* the horizontal block acted (lastNavTime = millis(), drawMenu())
HorizontalAccepted(m, joyY, joyX, nav) ==
  nav /\ OnRoundsRow(MenuAfterNav(m, joyY, nav))
      /\ (joyX > JoyHigh \/ joyX < JoyLow)

\* joyY, joyX: analogRead of the two axes; sel: digitalRead(joySwitch) == LOW;
\* d: milliseconds since the previous reading of millis()
HandleMenu(joyY, joyX, sel, d) ==
  /\ pc = "loop"
  /\ gameState = MenuState
  /\ LET t == Min(sinceNav + d, NavCap)
         nav == NavAllowed(t)
         m2 == MenuAfterNav(menuOption, joyY, nav)
         accepted == \/ VerticalAccepted(menuOption, joyY, nav)
                     \/ HorizontalAccepted(menuOption, joyY, joyX, nav)
     IN /\ menuOption' = m2
        /\ totalRounds' = RoundsAfterNav(totalRounds, m2, joyX, nav)
        /\ lastSel' = sel
        /\ IF sel
             THEN /\ IF m2 = 0 \/ m2 = 1 THEN StartNewGame ELSE ShowHighScore
                  /\ sinceNav' = NavCap
             ELSE /\ sinceNav' = IF accepted THEN 0 ELSE t
                  /\ lcd' = IF accepted THEN "menu" ELSE lcd
                  /\ UNCHANGED <<gameState, currentRound, totalGameScore,
                                 highScore, resultsSeen, gameOvers>>
  /\ UNCHANGED <<pc, introK, currentTarget, reactionTime, roundScore, led,
                 randomDelay, waited, calls>>

---------------------------------------------------------------------------
(* runEnGarde() with what it calls: cancelGame() *)

\* top of runEnGarde(): the display, all LEDs off, on to the safety gate
EnGardeEnter ==
  /\ pc = "loop"
  /\ gameState = PrepareState
  /\ lcd' = "engarde"
  /\ led' = AllOff
  /\ pc' = "gate"
  /\ UNCHANGED <<introK, gameState, menuOption, totalRounds, currentRound,
                 currentTarget, reactionTime, roundScore, totalGameScore,
                 highScore, sinceNav, randomDelay, waited, calls, resultsSeen,
                 gameOvers, lastSel>>

\* GatePoll that looks at the center button only
GatePollCenterOnly(b) ==
  /\ pc = "gate"
  /\ IF 1 \notin b
       THEN /\ pc' = "delay"
            /\ randomDelay' \in RandomDelays
            /\ waited' = 0
       ELSE UNCHANGED <<pc, randomDelay, waited>>
  /\ UNCHANGED <<introK, gameState, menuOption, totalRounds, currentRound,
                 currentTarget, reactionTime, roundScore, totalGameScore,
                 highScore, led, sinceNav, calls, resultsSeen, gameOvers,
                 lcd, lastSel>>

\* one pass of the safety gate; b: the target buttons read LOW.
\* With all released: delay(200), the delay is drawn by random(800, 3000),
\* delayStart = millis().
GatePoll(b) ==
  /\ pc = "gate"
  /\ IF b = {}
       THEN /\ pc' = "delay"
            /\ randomDelay' \in RandomDelays
            /\ waited' = 0
       ELSE UNCHANGED <<pc, randomDelay, waited>>
  /\ UNCHANGED <<introK, gameState, menuOption, totalRounds, currentRound,
                 currentTarget, reactionTime, roundScore, totalGameScore,
                 highScore, led, sinceNav, calls, resultsSeen, gameOvers,
                 lcd, lastSel>>

\* FalseStart with the wrong-button penalty taken for the false-start one
FalseStartAsWrong ==
  /\ totalGameScore' = totalGameScore - WrongPenalty
  /\ lcd' = "falta"
  /\ pc' = "loop"
  /\ randomDelay' = 0
  /\ waited' = 0
  /\ UNCHANGED <<gameState, currentTarget, led>>

\* the false-start branch of the delay loop
FalseStart ==
  /\ totalGameScore' = totalGameScore - FalseStartPenalty
  /\ lcd' = "falta"
  /\ pc' = "loop"
  /\ randomDelay' = 0
  /\ waited' = 0
  /\ UNCHANGED <<gameState, currentTarget, led>>

\* CancelGame that also clears the score
CancelGameClearScore ==
  /\ gameState' = MenuState
  /\ led' = AllOff
  /\ lcd' = "menu"
  /\ pc' = "loop"
  /\ randomDelay' = 0
  /\ waited' = 0
  /\ totalGameScore' = 0
  /\ UNCHANGED currentTarget

\* cancelGame()
CancelGame ==
  /\ gameState' = MenuState
  /\ led' = AllOff
  /\ lcd' = "menu"
  /\ pc' = "loop"
  /\ randomDelay' = 0
  /\ waited' = 0
  /\ UNCHANGED <<totalGameScore, currentTarget>>

\* LightTarget that lights the three LEDs
LightTargetAllLeds ==
  /\ gameState' = AwaitState
  /\ currentTarget' \in Targets
  /\ lcd' = "target"
  /\ led' = AllOn
  /\ pc' = "loop"
  /\ randomDelay' = 0
  /\ waited' = 0
  /\ UNCHANGED totalGameScore

\* the delay is over: the target is drawn by random(0, 3) and lit,
\* startTime = millis()
LightTarget ==
  /\ gameState' = AwaitState
  /\ currentTarget' \in Targets
  /\ lcd' = "target"
  /\ led' = [led EXCEPT ![currentTarget'] = TRUE]
  /\ pc' = "loop"
  /\ randomDelay' = 0
  /\ waited' = 0
  /\ UNCHANGED totalGameScore

\* one pass of the delay loop; w: millis() - delayStart read by the loop
\* condition; b: target buttons read LOW; sel: joySwitch read LOW (read only
\* inside the window and after the three target buttons were read released)
DelayPoll(w, b, sel) ==
  /\ pc = "delay"
  /\ w >= waited
  /\ IF ~(w < randomDelay)
       THEN LightTarget
       ELSE IF b # {}
         THEN FalseStart
         ELSE IF sel
           THEN CancelGame
           ELSE /\ waited' = w
                /\ UNCHANGED <<pc, gameState, currentTarget, led, randomDelay,
                               totalGameScore, lcd>>
  /\ lastSel' = IF w < randomDelay /\ b = {} THEN sel ELSE lastSel
  /\ UNCHANGED <<introK, menuOption, totalRounds, currentRound, reactionTime,
                 roundScore, highScore, sinceNav, calls, resultsSeen, gameOvers>>

---------------------------------------------------------------------------
(* checkReflexes() with what it calls: processRoundResult() *)

\* HitScore without the cutoff at one second
HitScoreNoCutoff(rt) == ScoreBase - rt

\* the score of a hit: 1000 - reactionTime, 0 beyond one second
HitScore(rt) == IF rt > ScoreCutoff THEN 0 ELSE ScoreBase - rt

\* WrongScore with the false-start penalty taken for the wrong-button one
WrongScoreAsFalseStart == 0 - FalseStartPenalty

\* the score of a wrong button
WrongScore == 0 - WrongPenalty

\* processRoundResult(success) on the scan state s: the score of the round,
\* the total, gameState = 3; delay(80) after the tone of a fast hit.
\* s.now is millis() - startTime.
ProcessRoundResult(success, i, s) ==
  LET rs == IF success THEN HitScore(s.reactionTime) ELSE WrongScore
      fast == success /\ rs > FastScore
  IN [s EXCEPT !.roundScore = rs,
               !.total = s.total + rs,
               !.gameState = ResultState,
               !.lcd = "result",
               !.now = s.now + (IF fast THEN FastToneDelay ELSE 0),
               !.calls = Append(s.calls,
                                [btn |-> i, success |-> success,
                                 rt |-> s.reactionTime, score |-> rs,
                                 before |-> s.total, after |-> s.total + rs])]

\* OnPressed without switching the target's LED off
OnPressedLedStays(i, s) ==
  ProcessRoundResult(i = currentTarget, i, [s EXCEPT !.reactionTime = s.now])

\* the body of the for loop for a button read LOW
OnPressed(i, s) ==
  ProcessRoundResult(i = currentTarget, i,
                     [s EXCEPT !.reactionTime = s.now,
                               !.led = [s.led EXCEPT ![currentTarget] = FALSE]])

\* ScanButtons with a timeout: past the cutoff the round is scored with no
\* button pressed
ScanButtonsTimeout(i, s, b, lag) ==
  IF s.now > ScoreCutoff THEN OnPressed(0, s) ELSE s

\* the for loop of checkReflexes from index i on; b: the buttons read LOW;
\* lag: milliseconds between one iteration's reading of millis() and the next
RECURSIVE ScanButtons(_, _, _, _)
ScanButtons(i, s, b, lag) ==
  IF i >= numTargets
    THEN s
    ELSE ScanButtons(i + 1,
                     IF i \in b
                       THEN [OnPressed(i, s) EXCEPT !.now = @ + lag]
                       ELSE s,
                     b, lag)

\* b: target buttons read LOW; rt: millis() - startTime at the first reading
CheckReflexes(b, rt, lag) ==
  /\ pc = "loop"
  /\ gameState = AwaitState
  /\ LET s0 == [now |-> rt, reactionTime |-> reactionTime,
                roundScore |-> roundScore, total |-> totalGameScore,
                gameState |-> gameState, led |-> led, lcd |-> lcd,
                calls |-> <<>>]
         s == ScanButtons(0, s0, b, lag)
     IN /\ reactionTime' = s.reactionTime
        /\ roundScore' = s.roundScore
        /\ totalGameScore' = s.total
        /\ gameState' = s.gameState
        /\ led' = s.led
        /\ lcd' = s.lcd
        /\ calls' = s.calls
        /\ resultsSeen' = IF s.gameState = ResultState
                            THEN Append(resultsSeen, currentRound)
                            ELSE resultsSeen
  /\ UNCHANGED <<pc, introK, menuOption, totalRounds, currentRound,
                 currentTarget, highScore, sinceNav, randomDelay, waited,
                 gameOvers, lastSel>>

---------------------------------------------------------------------------
(* loop(), state 3, with what it calls: gameOver() *)

\* NewHighScore that keeps the last total, not the best
NewHighScoreLast(total, hs) == total

NewHighScore(total, hs) == IF total > hs THEN total ELSE hs

\* gameOver()
GameOver ==
  /\ gameState' = GameOverState
  /\ highScore' = NewHighScore(totalGameScore, highScore)
  /\ lcd' = "gameover"
  /\ gameOvers' = gameOvers + 1
  /\ UNCHANGED currentRound

\* MoreRounds with <= for <
MoreRoundsLeq(cr, tr) == cr <= tr

\* currentRound < totalRounds
MoreRounds(cr, tr) == cr < tr

ResultStep ==
  /\ pc = "loop"
  /\ gameState = ResultState
  /\ led' = AllOff
  /\ calls' = <<>>
  /\ IF MoreRounds(currentRound, totalRounds)
       THEN /\ currentRound' = currentRound + 1
            /\ gameState' = PrepareState
            /\ UNCHANGED <<highScore, gameOvers, lcd>>
       ELSE GameOver
  /\ UNCHANGED <<pc, introK, menuOption, totalRounds, currentTarget,
                 reactionTime, roundScore, totalGameScore, sinceNav,
                 randomDelay, waited, resultsSeen, lastSel>>

---------------------------------------------------------------------------
(* loop(), states 4 and 5 *)

\* Confirmed that takes any target button
ConfirmedAnyButton(b, sel) == sel \/ b # {}

\* joystick button or center game button
Confirmed(b, sel) == sel \/ 1 \in b

EndScreen(b, sel) ==
  /\ pc = "loop"
  /\ gameState \in {GameOverState, HighScoreState}
  /\ IF Confirmed(b, sel)
       THEN /\ gameState' = MenuState
            /\ menuOption' = 0
            /\ lcd' = "menu"
            /\ sinceNav' = NavCap
       ELSE UNCHANGED <<gameState, menuOption, lcd, sinceNav>>
  /\ lastSel' = sel
  /\ UNCHANGED <<pc, introK, totalRounds, currentRound, currentTarget,
                 reactionTime, roundScore, totalGameScore, highScore, led,
                 randomDelay, waited, calls, resultsSeen, gameOvers>>

---------------------------------------------------------------------------
(* The program: setup(), then loop() for ever.  The disjuncts of Next draw *)
(* the inputs and keep the exploration within its bounds.                  *)

MenuTick ==
  /\ gameState = MenuState
  /\ pc = "loop"
  /\ \E joyY \in JoyCoarse, joyX \in JoyCoarse, sel \in BOOLEAN, d \in SpecTicks :
       /\ HandleMenu(joyY, joyX, sel, d)
       /\ totalRounds' > totalRounds => totalRounds' <= MaxGameRounds + 1
       /\ gameState' = PrepareState => totalRounds' <= MaxGameRounds

GateTick ==
  /\ pc = "gate"
  /\ \E b \in SingleButtons : GatePoll(b)

DelayTick ==
  /\ pc = "delay"
  /\ \E w \in WaitPoints, b \in SingleButtons, sel \in BOOLEAN :
       /\ DelayPoll(w, b, sel)
       /\ totalGameScore' >= 0 - MaxDebt

AwaitTick ==
  /\ gameState = AwaitState
  /\ \E b \in ButtonSets, rt \in ReactionTimes :
       /\ CheckReflexes(b, rt, 0)
       /\ totalGameScore' >= 0 - MaxDebt
       /\ totalGameScore' <= MaxCredit

EndTick ==
  /\ gameState \in {GameOverState, HighScoreState}
  /\ \E b \in SingleButtons, sel \in BOOLEAN : EndScreen(b, sel)

Next ==
  \/ IntroOn
  \/ IntroOff
  \/ MenuTick
  \/ EnGardeEnter
  \/ GateTick
  \/ DelayTick
  \/ AwaitTick
  \/ ResultStep
  \/ EndTick

Spec == Init /\ [][Next]_vars

---------------------------------------------------------------------------
(* The menu alone: setup(), the menu over its whole range of totalRounds,  *)
(* every joystick reading and both tick lengths, the high-score screen;    *)
(* no game is started.                                                     *)

MenuOnlyTick ==
  /\ gameState = MenuState
  /\ pc = "loop"
  /\ \E joyY \in JoyValues, joyX \in JoyValues, sel \in BOOLEAN, d \in MenuTicks :
       /\ HandleMenu(joyY, joyX, sel, d)
       /\ gameState' # PrepareState

MenuNext ==
  \/ IntroOn
  \/ IntroOff
  \/ MenuOnlyTick
  \/ EndTick

MenuSpec == Init /\ [][MenuNext]_vars

---------------------------------------------------------------------------
(* One run of checkReflexes() from the Await state of the first round of   *)
(* the first game (default configuration, no or one false start before):   *)
(* every target, every set of pressed buttons, every reaction time up to   *)
(* MaxRT.                                                                  *)

AwaitInit ==
  /\ pc = "loop"
  /\ introK = IntroBlinks
  /\ gameState = AwaitState
  /\ menuOption = 0
  /\ totalRounds = DefaultRounds
  /\ currentRound = 1
  /\ currentTarget \in Targets
  /\ reactionTime = 0
  /\ roundScore = 0
  /\ totalGameScore \in {0, 0 - FalseStartPenalty}
  /\ highScore = 0
  /\ led = [i \in Targets |-> i = currentTarget]
  /\ sinceNav = NavCap
  /\ randomDelay = 0
  /\ waited = 0
  /\ calls = <<>>
  /\ resultsSeen = <<>>
  /\ gameOvers = 0
  /\ lcd = "target"
  /\ lastSel = FALSE

ScoreTick ==
  /\ gameState = AwaitState
  /\ \E b \in ButtonSets, rt \in 0 .. MaxRT, lag \in 0 .. MaxLag :
       CheckReflexes(b, rt, lag)

ScoreSpec == AwaitInit /\ [][ScoreTick]_vars

---------------------------------------------------------------------------
(* The same program with the handlers that change gameState cut after the  *)
(* assignment to gameState: a step ends at the assignment, the next step   *)
(* runs the handler to its end.  pc names the statement reached:           *)
(* "startNewGame" and "showHighScore" the call (first statement next),     *)
(* "startNewGameLcd", "showHighScoreLcd", "lightTarget", "cancelLeds",     *)
(* "gameOverLcd", "endMenu" the statement after the assignment.            *)

\* handleMenu() up to the call of startNewGame() or showHighScore()
MenuToSelect(joyY, joyX, d) ==
  /\ pc = "loop"
  /\ gameState = MenuState
  /\ LET t == Min(sinceNav + d, NavCap)
         nav == NavAllowed(t)
         m2 == MenuAfterNav(menuOption, joyY, nav)
         accepted == \/ VerticalAccepted(menuOption, joyY, nav)
                     \/ HorizontalAccepted(menuOption, joyY, joyX, nav)
     IN /\ menuOption' = m2
        /\ totalRounds' = RoundsAfterNav(totalRounds, m2, joyX, nav)
        /\ sinceNav' = IF accepted THEN 0 ELSE t
        /\ lcd' = IF accepted THEN "menu" ELSE lcd
        /\ pc' = IF m2 = 0 \/ m2 = 1 THEN "startNewGame" ELSE "showHighScore"
  /\ lastSel' = TRUE
  /\ UNCHANGED <<introK, gameState, currentRound, currentTarget, reactionTime,
                 roundScore, totalGameScore, highScore, led, randomDelay,
                 waited, calls, resultsSeen, gameOvers>>

\* StartNewGameState that also resets the number of rounds
StartNewGameStateDefaultRounds ==
  /\ pc = "startNewGame"
  /\ currentRound' = 1
  /\ totalGameScore' = 0
  /\ gameState' = PrepareState
  /\ totalRounds' = DefaultRounds
  /\ resultsSeen' = <<>>
  /\ gameOvers' = 0
  /\ pc' = "startNewGameLcd"
  /\ UNCHANGED <<introK, menuOption, currentTarget, reactionTime,
                 roundScore, highScore, led, sinceNav, randomDelay, waited,
                 calls, lcd, lastSel>>

\* startNewGame(): its three assignments
StartNewGameState ==
  /\ pc = "startNewGame"
  /\ currentRound' = 1
  /\ totalGameScore' = 0
  /\ gameState' = PrepareState
  /\ resultsSeen' = <<>>
  /\ gameOvers' = 0
  /\ pc' = "startNewGameLcd"
  /\ UNCHANGED <<introK, menuOption, totalRounds, currentTarget, reactionTime,
                 roundScore, highScore, led, sinceNav, randomDelay, waited,
                 calls, lcd, lastSel>>

\* startNewGame(): the display and delay(1000); delay(500) of handleMenu()
StartNewGameLcd ==
  /\ pc = "startNewGameLcd"
  /\ lcd' = "prepare"
  /\ sinceNav' = NavCap
  /\ pc' = "loop"
  /\ UNCHANGED <<introK, gameState, menuOption, totalRounds, currentRound,
                 currentTarget, reactionTime, roundScore, totalGameScore,
                 highScore, led, randomDelay, waited, calls, resultsSeen,
                 gameOvers, lastSel>>

\* showHighScore(): its assignment
ShowHighScoreState ==
  /\ pc = "showHighScore"
  /\ gameState' = HighScoreState
  /\ pc' = "showHighScoreLcd"
  /\ UNCHANGED <<introK, menuOption, totalRounds, currentRound, currentTarget,
                 reactionTime, roundScore, totalGameScore, highScore, led,
                 sinceNav, randomDelay, waited, calls, resultsSeen, gameOvers,
                 lcd, lastSel>>

\* showHighScore(): the display; delay(500) of handleMenu()
ShowHighScoreLcd ==
  /\ pc = "showHighScoreLcd"
  /\ lcd' = "highscore"
  /\ sinceNav' = NavCap
  /\ pc' = "loop"
  /\ UNCHANGED <<introK, gameState, menuOption, totalRounds, currentRound,
                 currentTarget, reactionTime, roundScore, totalGameScore,
                 highScore, led, randomDelay, waited, calls, resultsSeen,
                 gameOvers, lastSel>>

\* one pass of the delay loop, cut after gameState = 2 and, in cancelGame(),
\* after gameState = 0
DelayPollToState(w, b, sel) ==
  /\ pc = "delay"
  /\ w >= waited
  /\ IF ~(w < randomDelay)
       THEN /\ gameState' = AwaitState
            /\ pc' = "lightTarget"
            /\ randomDelay' = 0
            /\ waited' = 0
            /\ UNCHANGED <<totalGameScore, currentTarget, led, lcd>>
       ELSE IF b # {}
         THEN FalseStart
         ELSE IF sel
           THEN /\ gameState' = MenuState
                /\ pc' = "cancelLeds"
                /\ randomDelay' = 0
                /\ waited' = 0
                /\ UNCHANGED <<totalGameScore, currentTarget, led, lcd>>
           ELSE /\ waited' = w
                /\ UNCHANGED <<pc, gameState, currentTarget, led, randomDelay,
                               totalGameScore, lcd>>
  /\ lastSel' = IF w < randomDelay /\ b = {} THEN sel ELSE lastSel
  /\ UNCHANGED <<introK, menuOption, totalRounds, currentRound, reactionTime,
                 roundScore, highScore, sinceNav, calls, resultsSeen, gameOvers>>

\* runEnGarde() after gameState = 2: the target drawn, shown and lit
LightTargetOutput ==
  /\ pc = "lightTarget"
  /\ currentTarget' \in Targets
  /\ lcd' = "target"
  /\ led' = [led EXCEPT ![currentTarget'] = TRUE]
  /\ pc' = "loop"
  /\ UNCHANGED <<introK, gameState, menuOption, totalRounds, currentRound,
                 reactionTime, roundScore, totalGameScore, highScore, sinceNav,
                 randomDelay, waited, calls, resultsSeen, gameOvers, lastSel>>

\* cancelGame() after gameState = 0: the LEDs, the display, the menu
CancelGameOutput ==
  /\ pc = "cancelLeds"
  /\ led' = AllOff
  /\ lcd' = "menu"
  /\ pc' = "loop"
  /\ UNCHANGED <<introK, gameState, menuOption, totalRounds, currentRound,
                 currentTarget, reactionTime, roundScore, totalGameScore,
                 highScore, sinceNav, randomDelay, waited, calls, resultsSeen,
                 gameOvers, lastSel>>

\* loop(), state 3, cut after gameState = 4 of gameOver()
ResultToState ==
  /\ pc = "loop"
  /\ gameState = ResultState
  /\ led' = AllOff
  /\ calls' = <<>>
  /\ IF MoreRounds(currentRound, totalRounds)
       THEN /\ currentRound' = currentRound + 1
            /\ gameState' = PrepareState
            /\ UNCHANGED <<pc, gameOvers>>
       ELSE /\ gameState' = GameOverState
            /\ gameOvers' = gameOvers + 1
            /\ pc' = "gameOverLcd"
            /\ UNCHANGED currentRound
  /\ UNCHANGED <<introK, menuOption, totalRounds, currentTarget, reactionTime,
                 roundScore, totalGameScore, highScore, sinceNav, randomDelay,
                 waited, resultsSeen, lcd, lastSel>>

\* gameOver() after gameState = 4: the record and the display
GameOverOutput ==
  /\ pc = "gameOverLcd"
  /\ highScore' = NewHighScore(totalGameScore, highScore)
  /\ lcd' = "gameover"
  /\ pc' = "loop"
  /\ UNCHANGED <<introK, gameState, menuOption, totalRounds, currentRound,
                 currentTarget, reactionTime, roundScore, totalGameScore, led,
                 sinceNav, randomDelay, waited, calls, resultsSeen, gameOvers,
                 lastSel>>

\* loop(), states 4 and 5, cut after gameState = 0; menuOption = 0
EndScreenToState(b, sel) ==
  /\ pc = "loop"
  /\ gameState \in {GameOverState, HighScoreState}
  /\ IF Confirmed(b, sel)
       THEN /\ gameState' = MenuState
            /\ menuOption' = 0
            /\ pc' = "endMenu"
       ELSE UNCHANGED <<gameState, menuOption, pc>>
  /\ lastSel' = sel
  /\ UNCHANGED <<introK, totalRounds, currentRound, currentTarget,
                 reactionTime, roundScore, totalGameScore, highScore, led,
                 sinceNav, randomDelay, waited, calls, resultsSeen, gameOvers,
                 lcd>>

\* loop(), states 4 and 5, after the assignments: drawMenu(), delay(500)
EndScreenOutput ==
  /\ pc = "endMenu"
  /\ lcd' = "menu"
  /\ sinceNav' = NavCap
  /\ pc' = "loop"
  /\ UNCHANGED <<introK, gameState, menuOption, totalRounds, currentRound,
                 currentTarget, reactionTime, roundScore, totalGameScore,
                 highScore, led, randomDelay, waited, calls, resultsSeen,
                 gameOvers, lastSel>>

MenuStmtTick ==
  /\ gameState = MenuState
  /\ pc = "loop"
  /\ \E joyY \in JoyCoarse, joyX \in JoyCoarse, d \in SpecTicks :
       /\ \/ HandleMenu(joyY, joyX, FALSE, d)
          \/ MenuToSelect(joyY, joyX, d)
       /\ totalRounds' > totalRounds => totalRounds' <= MaxGameRounds + 1
       /\ pc' = "startNewGame" => totalRounds' <= MaxGameRounds

DelayStmtTick ==
  /\ pc = "delay"
  /\ \E w \in WaitPoints, b \in SingleButtons, sel \in BOOLEAN :
       /\ DelayPollToState(w, b, sel)
       /\ totalGameScore' >= 0 - MaxDebt

EndStmtTick ==
  /\ gameState \in {GameOverState, HighScoreState}
  /\ pc = "loop"
  /\ \E b \in SingleButtons, sel \in BOOLEAN : EndScreenToState(b, sel)

StmtNext ==
  \/ IntroOn
  \/ IntroOff
  \/ MenuStmtTick
  \/ StartNewGameState
  \/ StartNewGameLcd
  \/ ShowHighScoreState
  \/ ShowHighScoreLcd
  \/ EnGardeEnter
  \/ GateTick
  \/ DelayStmtTick
  \/ LightTargetOutput
  \/ CancelGameOutput
  \/ AwaitTick
  \/ ResultToState
  \/ GameOverOutput
  \/ EndStmtTick
  \/ EndScreenOutput

StmtSpec == Init /\ [][StmtNext]_vars

---------------------------------------------------------------------------
(* The program with nobody at the buttons while a round is prepared: every *)
(* pass of the safety gate and of the delay loop reads the three target    *)
(* buttons and the select button released.  loop() runs for ever and       *)
(* millis() advances: runEnGarde() is called, the gate is polled, and a    *)
(* pass of the delay loop reads millis() - delayStart >= randomDelay.      *)

QuietGate ==
  /\ pc = "gate"
  /\ GatePoll({})

QuietDelay ==
  /\ pc = "delay"
  /\ \E w \in WaitPoints : DelayPoll(w, {}, FALSE)

DelayElapsed ==
  /\ pc = "delay"
  /\ \E w \in WaitPoints : ~(w < randomDelay) /\ DelayPoll(w, {}, FALSE)

QuietNext ==
  \/ IntroOn
  \/ IntroOff
  \/ MenuTick
  \/ EnGardeEnter
  \/ QuietGate
  \/ QuietDelay
  \/ AwaitTick
  \/ ResultStep
  \/ EndTick

QuietSpec ==
  /\ Init
  /\ [][QuietNext]_vars
  /\ WF_vars(EnGardeEnter)
  /\ WF_vars(QuietGate)
  /\ WF_vars(DelayElapsed)

---------------------------------------------------------------------------
(* Properties *)

LastCall == calls[Len(calls)]
NoLedLit == \A i \in Targets : ~led[i]

\* C1: every processRoundResult(true) call of a checkReflexes run scores
\* 1000 - reactionTime for a reaction time up to 1000 and 0 beyond, so no
\* shorter reaction time scores less; roundScore and reactionTime hold the
\* values of the last call.
C1_HitScore ==
  /\ \A k \in 1 .. Len(calls) :
       calls[k].success =>
         /\ calls[k].rt <= 1000 => calls[k].score = 1000 - calls[k].rt
         /\ calls[k].rt > 1000 => calls[k].score = 0
         /\ \A t \in 0 .. calls[k].rt : HitScore(t) >= calls[k].score
  /\ (calls # <<>> /\ LastCall.success) =>
       /\ reactionTime = LastCall.rt
       /\ roundScore = HitScore(reactionTime)
       /\ roundScore = IF reactionTime <= 1000 THEN 1000 - reactionTime ELSE 0

\* C1 witness: the hit of the spec's scenario, 150 ms scoring 850
C1_Witness ==
  /\ gameState = ResultState
  /\ Len(calls) = 1
  /\ calls[1].success
  /\ calls[1].rt = 150
  /\ roundScore = 850
  /\ totalGameScore = 850

\* C2: every processRoundResult(false) call scores -200 whatever the
\* reaction time and lowers totalGameScore by exactly 200; after a run whose
\* last call was a wrong button, roundScore is -200.
C2_WrongPress ==
  /\ \A k \in 1 .. Len(calls) :
       ~calls[k].success =>
         /\ calls[k].score = -200
         /\ calls[k].after = calls[k].before - 200
  /\ calls # <<>> =>
       /\ totalGameScore = LastCall.after
       /\ ~LastCall.success => roundScore = -200

\* C2 witness: a single wrong button pressed after more than a second
C2_Witness ==
  /\ gameState = ResultState
  /\ Len(calls) = 1
  /\ ~calls[1].success
  /\ calls[1].btn # currentTarget
  /\ calls[1].rt > 1000
  /\ roundScore = -200
  /\ totalGameScore = -200

\* C3: a target button read pressed inside the delay window costs exactly
\* 500, leaves currentRound and the state (Prepare) alone, leaves every LED
\* off and returns to loop(); from there runEnGarde() starts again at its
\* safety gate for the same round, and a passed gate starts a new delay.
C3_FalseStart ==
  [][/\ (/\ pc = "delay"
         /\ \E w \in WaitPoints, b \in ButtonSets \ {{}}, sel \in BOOLEAN :
              w < randomDelay /\ DelayPoll(w, b, sel))
        => /\ totalGameScore' = totalGameScore - 500
           /\ currentRound' = currentRound
           /\ NoLedLit'
           /\ gameState' = PrepareState
           /\ pc' = "loop"
     /\ (pc = "loop" /\ gameState = PrepareState)
        => /\ pc' = "gate"
           /\ gameState' = PrepareState
           /\ currentRound' = currentRound
           /\ totalGameScore' = totalGameScore
     /\ (pc = "gate" /\ pc' # "gate")
        => /\ pc' = "delay"
           /\ waited' = 0
           /\ randomDelay' \in RandomDelayMin .. RandomDelayMax
           /\ currentRound' = currentRound
    ]_vars

\* C3 witness: back at loop() in Prepare, first round, 500 down
C3_Witness ==
  /\ pc = "loop"
  /\ gameState = PrepareState
  /\ currentRound = 1
  /\ totalGameScore = -500
  /\ NoLedLit

\* C4: totalRounds stays in 1 .. 99 and moves by at most one per tick; a
\* right deflection at 99 leaves 99 and a left deflection at 1 leaves 1.
C4_RoundsClamped ==
  /\ [](1 <= totalRounds /\ totalRounds <= 99)
  /\ [][/\ totalRounds' - totalRounds \in {-1, 0, 1}
        /\ (/\ pc = "loop"
            /\ gameState = MenuState
            /\ totalRounds = 99
            /\ \E joyY \in JoyValues, joyX \in JoyValues, sel \in BOOLEAN,
                  d \in MenuTicks :
                 joyX > 900 /\ HandleMenu(joyY, joyX, sel, d))
           => totalRounds' = 99
        /\ (/\ pc = "loop"
            /\ gameState = MenuState
            /\ totalRounds = 1
            /\ \E joyY \in JoyValues, joyX \in JoyValues, sel \in BOOLEAN,
                  d \in MenuTicks :
                 joyX < 100 /\ HandleMenu(joyY, joyX, sel, d))
           => totalRounds' = 1
       ]_vars

\* C4 witness: at the upper limit, on the Rounds row, a change just accepted
C4_Witness ==
  /\ gameState = MenuState
  /\ menuOption = 1
  /\ totalRounds = 99
  /\ sinceNav = 0

\* C5: highScore never decreases; it changes only in the step from Result
\* to GameOver, where it becomes the larger of highScore and totalGameScore;
\* in GameOver highScore >= totalGameScore.
C5_HighScore ==
  /\ [](gameState = GameOverState => highScore >= totalGameScore)
  /\ [][/\ highScore' >= highScore
        /\ highScore' # highScore
             => gameState = ResultState /\ gameState' = GameOverState
        /\ (gameState = ResultState /\ gameState' = GameOverState)
             => /\ totalGameScore' = totalGameScore
                /\ highScore' = IF totalGameScore > highScore
                                  THEN totalGameScore ELSE highScore
       ]_vars

\* C5 witness: a game finished below a high score set by an earlier game
C5_Witness ==
  /\ gameState = GameOverState
  /\ highScore = 900
  /\ totalGameScore = -200

\* C6: a game of N = totalRounds rounds enters Result once per round, for
\* currentRound = 1, 2, .. N in this order, and calls gameOver() once, after
\* the N-th Result; GameOver is left only for Menu.
C6_RoundsThenGameOver ==
  /\ [](/\ gameOvers <= 1
        /\ gameState \in {PrepareState, AwaitState}
             => /\ gameOvers = 0
                /\ resultsSeen = [k \in 1 .. currentRound - 1 |-> k]
        /\ gameState = ResultState
             => /\ gameOvers = 0
                /\ resultsSeen = [k \in 1 .. currentRound |-> k]
        /\ gameState = GameOverState
             => /\ gameOvers = 1
                /\ resultsSeen = [k \in 1 .. totalRounds |-> k])
  /\ [][/\ gameState = GameOverState
             => gameState' \in {GameOverState, MenuState}
        /\ (gameState # GameOverState /\ gameState' = GameOverState)
             => gameState = ResultState /\ Len(resultsSeen) = totalRounds
        /\ gameState \in {PrepareState, AwaitState, ResultState}
             => totalRounds' = totalRounds
       ]_vars

\* C6 witness: GameOver after the two rounds of a two-round game
C6_Witness ==
  /\ gameState = GameOverState
  /\ totalRounds = 2
  /\ resultsSeen = <<1, 2>>
  /\ gameOvers = 1

\* C7: the select button read pressed inside the delay window, with no
\* target button pressed, leads to Menu with every LED off and leaves
\* totalGameScore, currentRound, totalRounds and highScore unchanged.
C7_Cancel ==
  [][(/\ pc = "delay"
      /\ \E w \in WaitPoints : w < randomDelay /\ DelayPoll(w, {}, TRUE))
     => /\ gameState' = MenuState
        /\ pc' = "loop"
        /\ NoLedLit'
        /\ totalGameScore' = totalGameScore
        /\ currentRound' = currentRound
        /\ totalRounds' = totalRounds
        /\ highScore' = highScore
    ]_vars

\* C7 witness: in Menu after a game cancelled in its second round, the score
\* of the first round kept
C7_Witness ==
  /\ gameState = MenuState
  /\ pc = "loop"
  /\ gameOvers = 0
  /\ resultsSeen = <<1>>
  /\ currentRound = 2
  /\ totalGameScore = 900
  /\ NoLedLit

\* C8 (as claimed): a run of checkReflexes that leaves Await scored the round
\* exactly once, for the first pressed button in scan order.
C8_FirstPressedWins ==
  gameState = ResultState =>
    /\ Len(calls) = 1
    /\ roundScore = calls[1].score
    /\ totalGameScore = calls[1].before + calls[1].score

\* C9 (as claimed): 1 <= currentRound <= totalRounds in every state.
C9_RoundInRange == 1 <= currentRound /\ currentRound <= totalRounds

\* C9 (amended): 1 <= currentRound always, and currentRound <= totalRounds
\* in Prepare, Await, Result and GameOver; Result with currentRound equal to
\* totalRounds goes to GameOver without incrementing currentRound.
C9_RoundInRangeInGame ==
  /\ [](/\ 1 <= currentRound
        /\ gameState \in {PrepareState, AwaitState, ResultState, GameOverState}
             => currentRound <= totalRounds)
  /\ [][(pc = "loop" /\ gameState = ResultState /\ currentRound = totalRounds)
          => gameState' = GameOverState /\ currentRound' = currentRound
       ]_vars

\* C9 witness: GameOver reached with currentRound = totalRounds = 2
C9_Witness ==
  /\ gameState = GameOverState
  /\ currentRound = 2
  /\ totalRounds = 2

\* C10 (as claimed): at most one LED is lit, only in Await, and it is the
\* LED of currentTarget.
C10_OneLedInAwait ==
  \A i \in Targets : led[i] => gameState = AwaitState /\ i = currentTarget

\* C10 (amended): the same, once setup() has returned.
C10_OneLedAfterSetup ==
  pc \notin {"introOn", "introOff"} => C10_OneLedInAwait

\* C10 witness: Await with the right LED lit alone
C10_Witness ==
  /\ gameState = AwaitState
  /\ currentTarget = 2
  /\ led = [i \in Targets |-> i = 2]

\* C11 (as claimed): in every state, between any two statements, the display
\* and the LEDs are those of the state gameState reports: the target's
\* screen and LED in Await, the menu and no LED in Menu once setup() is
\* over, the end screens in GameOver and HighScore, and in Prepare a screen
\* of the game (never the menu's).
C11_OutputsBeforeState ==
  /\ gameState = AwaitState
       => lcd = "target" /\ led = [i \in Targets |-> i = currentTarget]
  /\ (gameState = MenuState /\ pc \notin {"introOn", "introOff"})
       => lcd = "menu" /\ NoLedLit
  /\ gameState = GameOverState => lcd = "gameover" /\ NoLedLit
  /\ gameState = HighScoreState => lcd = "highscore" /\ NoLedLit
  /\ gameState = PrepareState
       => lcd \in {"prepare", "engarde", "falta", "result"}

\* C12: startNewGame() sets currentRound to 1, totalGameScore to 0 and
\* gameState to Prepare and leaves highScore and totalRounds unchanged,
\* whatever values the game before left.
C12_StartNewGame ==
  /\ [](pc = "startNewGameLcd"
          => currentRound = 1 /\ totalGameScore = 0 /\ gameState = PrepareState)
  /\ [][pc = "startNewGame"
          => /\ currentRound' = 1
             /\ totalGameScore' = 0
             /\ gameState' = PrepareState
             /\ highScore' = highScore
             /\ totalRounds' = totalRounds
       ]_vars

\* C12 witness: startNewGame() has run after a finished game that left a
\* high score of 900 and two rounds configured
C12_Witness ==
  /\ pc = "startNewGameLcd"
  /\ currentRound = 1
  /\ totalGameScore = 0
  /\ highScore = 900
  /\ totalRounds = 2

\* C13 (as claimed): a tick of Menu calls startNewGame() or showHighScore()
\* only if the read of the select button before this one found it released.
C13_SelectOnEdge ==
  [][(pc = "loop" /\ gameState = MenuState
        /\ gameState' \in {PrepareState, HighScoreState})
     => ~lastSel
    ]_vars

\* C14 (as claimed): a tick of Menu changes menuOption or totalRounds only
\* if 200 ms or more have passed since the last accepted navigation action,
\* it never accepts a vertical and a horizontal action together, and a
\* downward deflection read exactly 200 ms after the last accepted action
\* moves the selection.
C14_Debounce ==
  [][\A joyY \in JoyValues, joyX \in JoyValues, sel \in BOOLEAN,
        d \in MenuTicks :
       HandleMenu(joyY, joyX, sel, d) =>
         LET t == Min(sinceNav + d, NavCap)
         IN /\ (menuOption' # menuOption \/ totalRounds' # totalRounds)
                 => t >= 200
            /\ ~(menuOption' # menuOption /\ totalRounds' # totalRounds)
            /\ (t = 200 /\ joyY > 900 /\ menuOption < 2)
                 => menuOption' = menuOption + 1
    ]_vars

\* C15: GameOver and HighScore are left only for Menu, with menuOption = 0,
\* and only when the select button or the center button is read pressed;
\* with neither pressed (left, right or no button) gameState, menuOption,
\* totalRounds, totalGameScore and highScore stay as they are.
C15_EndScreens ==
  [][(gameState = GameOverState \/ gameState = HighScoreState) =>
       /\ gameState' # gameState
            => gameState' = MenuState /\ menuOption' = 0
       /\ totalRounds' = totalRounds
       /\ totalGameScore' = totalGameScore
       /\ highScore' = highScore
       /\ \A b \in ButtonSets, sel \in BOOLEAN :
            EndScreen(b, sel) =>
              /\ (sel \/ 1 \in b)
                   => gameState' = MenuState /\ menuOption' = 0
              /\ ~(sel \/ 1 \in b)
                   => /\ gameState' = gameState
                      /\ menuOption' = menuOption
    ]_vars

\* C15 witness: back in Menu from GameOver by the center button (the select
\* button was read released), the selection on the first row
C15_Witness ==
  /\ gameState = MenuState
  /\ gameOvers = 1
  /\ menuOption = 0
  /\ ~lastSel

C18_MenuOption ==
  /\ [](0 <= menuOption /\ menuOption <= 2)
  /\ [][/\ menuOption' - menuOption \in {-1, 0, 1}
        /\ \A joyY \in JoyValues, joyX \in JoyValues, sel \in BOOLEAN,
              d \in MenuTicks :
             (NavAllowed(Min(sinceNav + d, NavCap))
                /\ HandleMenu(joyY, joyX, sel, d))
             => /\ joyY < 100
                     => menuOption' = IF menuOption - 1 < 0 THEN 0
                                      ELSE menuOption - 1
                /\ joyY > 900
                     => menuOption' = IF menuOption + 1 > 2 THEN 2
                                      ELSE menuOption + 1
       ]_vars

\* C18 (amended): the same, with "no tick of Menu changes menuOption by more
\* than 1"; a tick of GameOver or HighScore leaves menuOption or sets it to 0
\* (from 2, when HighScore is left), and no other tick changes it.
C18_MenuOptionInMenu ==
  /\ [](0 <= menuOption /\ menuOption <= 2)
  /\ [][/\ gameState = MenuState => menuOption' - menuOption \in {-1, 0, 1}
        /\ (gameState = GameOverState \/ gameState = HighScoreState)
             => menuOption' = menuOption \/ menuOption' = 0
        /\ gameState \in {PrepareState, AwaitState, ResultState}
             => menuOption' = menuOption
        /\ \A joyY \in JoyValues, joyX \in JoyValues, sel \in BOOLEAN,
              d \in MenuTicks :
             (NavAllowed(Min(sinceNav + d, NavCap))
                /\ HandleMenu(joyY, joyX, sel, d))
             => /\ joyY < 100
                     => menuOption' = IF menuOption - 1 < 0 THEN 0
                                      ELSE menuOption - 1
                /\ joyY > 900
                     => menuOption' = IF menuOption + 1 > 2 THEN 2
                                      ELSE menuOption + 1
       ]_vars

\* C18 witness: the selection just moved to the last row
C18_Witness ==
  /\ gameState = MenuState
  /\ pc = "loop"
  /\ menuOption = 2
  /\ sinceNav = 0

C20_NoCancelInAwait ==
  /\ [](gameState = AwaitState => pc = "loop" /\ led[currentTarget])
  /\ [][/\ (gameState = AwaitState \/ gameState = ResultState)
             => lastSel' = lastSel /\ gameState' # MenuState
        /\ gameState = AwaitState
             => /\ \A rt \in ReactionTimes, lag \in 0 .. MaxLag :
                     CheckReflexes({}, rt, lag)
                       => UNCHANGED <<gameState, totalGameScore, currentRound,
                                      led, lcd>>
                /\ gameState' # AwaitState
                     => gameState' = ResultState /\ calls' # <<>>
        /\ gameState = ResultState
             => /\ totalGameScore' = totalGameScore
                /\ gameState' \in {PrepareState, GameOverState}
        /\ (gameState' = MenuState
              /\ gameState \notin {MenuState, GameOverState, HighScoreState})
             => gameState = PrepareState /\ pc = "delay"
       ]_vars

\* C20 witness: Await of the second round, the right LED lit, no target
\* button read pressed yet, the select button last read released
C20_Witness ==
  /\ gameState = AwaitState
  /\ currentRound = 2
  /\ currentTarget = 2
  /\ led[2]
  /\ ~lastSel
  /\ calls = <<>>

====
